---- MODULE Spec2Model ----
(***************************************************************************)
(* A model of github.com/secure-for-ai/shardmap: the Robin Hood shard      *)
(* table (mapShard: newShard, resize, SetWithHash, set, GetWithHash,       *)
(* DeleteWithHash, remove, Scan) and the sharded Map built on it           *)
(* (Init, Clear, Set, SetAccept, Get, Delete, DeleteAccept, Len, Range,    *)
(* choose).                                                                *)
(*                                                                         *)
(* Go slices are indexed from 0 and TLA+ sequences from 1: bucket i of the *)
(* code is buckets[i + 1] here, shard i is maps[i + 1].                    *)
(***************************************************************************)
EXTENDS Integers, Sequences, FiniteSets, TLC

(***************************************************************************)
(* Bounds of the model.                                                    *)
(***************************************************************************)
\* keys are 0..MaxKey; 0 is the zero value of the key type
MaxKey == 9
\* runtime.NumCPU() of the host
NumCPU == 1
\* the per-shard capacity hint tried besides 0
MaxShardCap == 9
\* Range visitors return false at their n-th call, n in 1..MaxStop, or never
MaxStop == 1
\* the keys below WideN crowd one shard, each written with every value
WideN == 6
\* the keys below FillN crowd one shard, each written with one value
FillN == 8
\* the keys below CrossN are used together with the keys of another shard
CrossN == 3
\* the threads that share the map are 1..NThreads
NThreads == 2
\* the calls each thread makes
MaxCalls == 2
\* the threads use the keys below ThreadN and the keys of another shard
ThreadN == 1
\* a per-shard capacity hint that is no power of two, and the keys below
\* HintN that are used with it
HintShardCap == 33
HintN == 9
\* the shard counts looked at are 2^0 .. 2^MaxShardBits
MaxShardBits == 17

Keys == 0 .. MaxKey
\* the zero values `var prev V` / `var result V` / entry[K, V]{} are made of
ZeroK == 0
ZeroV == ""
\* The map stores and returns values and never looks into them: the values
\* are strings, the zero value and one other value.
Dolly == "Dolly!"
Values == {ZeroV, Dolly}
\* "no value" in the abstract dictionary
None == "(none)"

(***************************************************************************)
(* Entry bit packing.                                                      *)
(***************************************************************************)
loadFactorPct == 85
dibBitSize == 16
maxDIB == 65535

\* 1 << dibBitSize, which is maxDIB + 1
dibSpan == maxDIB + 1

\* x & mask. Every right operand of & in the code is 2^n - 1 (maxDIB, a
\* bucket mask len(buckets) - 1, the shard mask shards - 1, or the 0 of a
\* zero-valued Map), and x & (2^n - 1) is x mod 2^n.
BitAnd(x, mask) == x % (mask + 1)

\* e.hdib & maxDIB (maxDIB is 2^16 - 1, so the low 16 bits)
dib(e) == e.hdib % dibSpan
\* e.hdib >> dibBitSize
hash(e) == e.hdib \div dibSpan
\* a setDIB that leaves the entry as it is
setDIBKeeps(e, d) == e
\* e.hdib = e.hdib&hashMask | dib&maxDIB
setDIB(e, d) == [e EXCEPT !.hdib = (e.hdib - (e.hdib % dibSpan)) + (d % dibSpan)]
\* hash<<dibBitSize | dib&maxDIB (the hashes of the model stay below 2^15,
\* so the shift loses no bit, as with the 48-bit hashes of the code)
makeHDIB(h, d) == h * dibSpan + (d % dibSpan)
\* a makeHash that keeps the low bits of the digest
makeHashLow(h) == h % dibSpan

\* hash >> dibBitSize
makeHash(h) == h \div dibSpan

\* entry[K, V]{}
EmptyEntry == [hdib |-> 0, key |-> ZeroK, value |-> ZeroV]

(***************************************************************************)
(* The shard table.                                                        *)
(***************************************************************************)
RECURSIVE SizeFor(_, _)
\* sz := 8; for sz < m.cap { sz *= 2 }
SizeFor(sz, c) == IF sz < c THEN SizeFor(sz * 2, c) ELSE sz

\* mutant: a load factor of 1
GrowAtFull(sz) == sz

\* int(float64(len(m.buckets)) * loadFactor)
GrowAtOf(sz) == (sz * loadFactorPct) \div 100
\* int(float64(len(m.buckets)) * (1 - loadFactor))
ShrinkAtOf(sz) == (sz * (100 - loadFactorPct)) \div 100

newShard(c) ==
    LET sz == SizeFor(8, c)
    IN  [cap      |-> c,
         length   |-> 0,
         growAt   |-> GrowAtOf(sz),
         shrinkAt |-> ShrinkAtOf(sz),
         mask     |-> sz - 1,
         buckets  |-> [i \in 1 .. sz |-> EmptyEntry]]

\* new(mapShard[K, V]): the zero shard, no bucket array
ZeroShard ==
    [cap |-> 0, length |-> 0, growAt |-> 0, shrinkAt |-> 0, mask |-> 0,
     buckets |-> << >>]

\* A probe loop has no exit but an empty slot or the key. One full turn of
\* the bucket array without an exit means the loop never reaches one: the
\* call diverges, which the operators report as hung.
ProbeLimit(m) == Len(m.buckets)

\* m.length++ of set
IncLength(n) == n + 1

\* mutant: the keys are taken for equal when their stored hashes are
SameKeyHashOnly(e, b) == hash(e) = hash(b)

\* e.hash() == m.buckets[i].hash() && e.key == m.buckets[i].key
SameKey(e, b) == hash(e) = hash(b) /\ e.key = b.key

\* if m.buckets[i].dib() < e.dib(): the resident is richer, swap
Richer(b, e) == dib(b) < dib(e)

RECURSIVE setLoop(_, _, _, _)
setLoop(m, e, i, n) ==
    IF n >= ProbeLimit(m)
    THEN [m |-> m, prev |-> ZeroV, ok |-> FALSE, hung |-> TRUE]
    ELSE LET b == m.buckets[i + 1]
         IN  IF dib(b) = 0
             THEN [m    |-> [m EXCEPT !.buckets[i + 1] = e,
                                      !.length = IncLength(m.length)],
                   prev |-> ZeroV, ok |-> FALSE, hung |-> FALSE]
             ELSE IF SameKey(e, b)
             THEN [m    |-> [m EXCEPT !.buckets[i + 1].value = e.value],
                   prev |-> b.value, ok |-> TRUE, hung |-> FALSE]
             ELSE LET swap == Richer(b, e)
                      e2   == IF swap THEN b ELSE e
                      m2   == IF swap THEN [m EXCEPT !.buckets[i + 1] = e] ELSE m
                  IN  setLoop(m2, setDIB(e2, dib(e2) + 1),
                              BitAnd(i + 1, m.mask), n + 1)

set(m, h, key, value) ==
    LET e == [hdib |-> makeHDIB(h, 1), key |-> key, value |-> value]
    IN  setLoop(m, e, BitAnd(hash(e), m.mask), 0)

RECURSIVE resizeLoop(_, _, _)
\* for i := 0; i < len(m.buckets); i++ { if dib > 0 { nmap.set(...) } }
resizeLoop(m, nmap, i) ==
    IF i >= Len(m.buckets) THEN [m |-> nmap, hung |-> FALSE]
    ELSE LET b == m.buckets[i + 1]
         IN  IF dib(b) > 0
             THEN LET r == set(nmap, hash(b), b.key, b.value)
                  IN  IF r.hung THEN [m |-> nmap, hung |-> TRUE]
                      ELSE resizeLoop(m, r.m, i + 1)
             ELSE resizeLoop(m, nmap, i + 1)

\* cap := m.cap; *m = *nmap; m.cap = cap
resize(m, newCap) ==
    LET r == resizeLoop(m, newShard(newCap), 0)
    IN  [m |-> [r.m EXCEPT !.cap = m.cap], hung |-> r.hung]

\* if m.length >= m.growAt
NeedGrow(m) == m.length >= m.growAt

\* the result has the table, the return values, whether the call diverges
\* (hung) and whether it resized the table (rs)
SetWithHash(m, h, key, value) ==
    LET m1 == IF Len(m.buckets) = 0 THEN newShard(0) ELSE m
        gr == NeedGrow(m1)
        g  == IF gr THEN resize(m1, Len(m1.buckets) * 2)
              ELSE [m |-> m1, hung |-> FALSE]
        r  == set(g.m, h, key, value)
    IN  IF g.hung
        THEN [m |-> g.m, prev |-> ZeroV, ok |-> FALSE, hung |-> TRUE, rs |-> gr]
        ELSE [m |-> r.m, prev |-> r.prev, ok |-> r.ok, hung |-> r.hung, rs |-> gr]

RECURSIVE getLoop(_, _, _, _, _)
getLoop(m, h, key, i, n) ==
    IF n >= ProbeLimit(m) THEN [value |-> ZeroV, ok |-> FALSE, hung |-> TRUE]
    ELSE LET b == m.buckets[i + 1]
         IN  IF dib(b) = 0 THEN [value |-> ZeroV, ok |-> FALSE, hung |-> FALSE]
             ELSE IF hash(b) = h /\ b.key = key
             THEN [value |-> b.value, ok |-> TRUE, hung |-> FALSE]
             ELSE getLoop(m, h, key, BitAnd(i + 1, m.mask), n + 1)

GetWithHash(m, h, key) ==
    IF Len(m.buckets) = 0 THEN [value |-> ZeroV, ok |-> FALSE, hung |-> FALSE]
    ELSE getLoop(m, h, key, BitAnd(h, m.mask), 0)

\* mutant: the backward shift stops at an empty bucket only
ShiftStopsAtEmpty(b) == dib(b) = 0

\* if m.buckets[i].dib() <= 1: the backward shift stops
ShiftStops(b) == dib(b) <= 1

\* a remove that empties the bucket and shifts nothing back
removeLoopNoShift(bs, mask, i) == [bs EXCEPT ![i + 1] = EmptyEntry]

RECURSIVE removeLoop(_, _, _)
\* the backward shift of remove, from the gap at i
removeLoop(bs, mask, i) ==
    LET pi == i
        ni == BitAnd(i + 1, mask)
    IN  IF ShiftStops(bs[ni + 1])
        THEN [bs EXCEPT ![pi + 1] = EmptyEntry]
        ELSE removeLoop([bs EXCEPT ![pi + 1] = setDIB(bs[ni + 1], dib(bs[ni + 1]) - 1)],
                        mask, ni)

\* if len(m.buckets) > m.cap && m.length <= m.shrinkAt
NeedShrink(m) == Len(m.buckets) > m.cap /\ m.length <= m.shrinkAt

\* mutant: remove forgets m.length--
DecLengthNot(n) == n

\* m.length-- of remove
DecLength(n) == n - 1

remove(m, i) ==
    LET bs0 == [m.buckets EXCEPT ![i + 1] = setDIB(m.buckets[i + 1], 0)]
        m1  == [m EXCEPT !.buckets = removeLoop(bs0, m.mask, i),
                         !.length = DecLength(m.length)]
        sh  == NeedShrink(m1)
        r   == IF sh THEN resize(m1, m1.length) ELSE [m |-> m1, hung |-> FALSE]
    IN  [m |-> r.m, hung |-> r.hung, rs |-> sh]

RECURSIVE deleteLoop(_, _, _, _, _)
deleteLoop(m, h, key, i, n) ==
    IF n >= ProbeLimit(m)
    THEN [m |-> m, prev |-> ZeroV, ok |-> FALSE, hung |-> TRUE, rs |-> FALSE]
    ELSE LET b == m.buckets[i + 1]
         IN  IF dib(b) = 0
             THEN [m |-> m, prev |-> ZeroV, ok |-> FALSE, hung |-> FALSE, rs |-> FALSE]
             ELSE IF hash(b) = h /\ b.key = key
             THEN LET r == remove(m, i)
                  IN  [m |-> r.m, prev |-> b.value, ok |-> TRUE, hung |-> r.hung,
                       rs |-> r.rs]
             ELSE deleteLoop(m, h, key, BitAnd(i + 1, m.mask), n + 1)

DeleteWithHash(m, h, key) ==
    IF Len(m.buckets) = 0
    THEN [m |-> m, prev |-> ZeroV, ok |-> FALSE, hung |-> FALSE, rs |-> FALSE]
    ELSE deleteLoop(m, h, key, BitAnd(h, m.mask), 0)

\* mapShard.Len: return m.length
ShardLen(m) == m.length

RECURSIVE scanLoop(_, _, _, _)
\* Scan with a visitor that returns false at its stop-th call (0: never);
\* the result is the calls made so far, in order, and whether the visitor
\* stopped the scan
scanLoop(m, i, calls, stop) ==
    IF i >= Len(m.buckets) THEN [calls |-> calls, done |-> FALSE]
    ELSE LET b == m.buckets[i + 1]
         IN  IF dib(b) > 0
             THEN LET c == Append(calls, <<b.key, b.value>>)
                  IN  IF Len(c) = stop THEN [calls |-> c, done |-> TRUE]
                      ELSE scanLoop(m, i + 1, c, stop)
             ELSE scanLoop(m, i + 1, calls, stop)

\* mutant: the scan starts at bucket 1
ScanFromOne(m, calls, stop) == scanLoop(m, 1, calls, stop)

Scan(m, calls, stop) == scanLoop(m, 0, calls, stop)

(***************************************************************************)
(* The sharded map.                                                        *)
(***************************************************************************)
\* xxh3.HashString over the key's bytes: a fixed function of the key. The
\* table gives each key <<bits 16.., bits 0..15>> of its digest; keys 0 and 1
\* collide on the whole stored hash, keys 0..2 on their home bucket 7 of an
\* 8-bucket table and keys 4..5 on their home bucket 6 (all of them spill
\* over the end of the array onto key 3's home bucket 0), keys 0..8 land in
\* shard 0 and key 9 in shard 1.
DigestTab ==
    << <<7, 0>>, <<7, 0>>, <<15, 0>>, <<0, 0>>, <<6, 0>>, <<14, 0>>,
       <<3, 0>>, <<12, 0>>, <<5, 0>>, <<7, 1>>, <<3, 17>> >>

Digest(k) ==
    LET d == IF k + 1 <= Len(DigestTab) THEN DigestTab[k + 1] ELSE <<k, k>>
    IN  d[1] * dibSpan + d[2]

VARIABLES
    cap,          \* Map.cap
    shards,       \* Map.shards
    shardIDMax,   \* Map.shardIDMax
    maps,         \* Map.maps
    univ,         \* the keys and the values the caller uses
    dict,         \* the dictionary the accepted mutations so far describe
    hung,         \* a call diverged: it never returns
    mus,          \* Map.mus: who holds each shard's RWMutex
    once,         \* Map.init, the sync.Once: "none", "running" or "done"
    pc,           \* where each thread is in its call
    loc,          \* each thread's arguments and local variables
    ncalls,       \* the calls each thread has made
    panicked,     \* a call panicked: the program is gone
    stale         \* a call saw something else than the accepted mutations

\* what the calls of the single caller leave alone
tvars == <<mus, once, pc, loc, ncalls, panicked, stale>>

vars == <<cap, shards, shardIDMax, maps, univ, dict, hung, tvars>>

Threads == 1 .. NThreads

\* a sync.RWMutex: its writer (0: none) and its readers
FreeMu == [w |-> 0, r |-> {}]

\* a thread between two calls
NoLoc ==
    [key |-> ZeroK, value |-> ZeroV, acc |-> "nil", shard |-> 0, hashkey |-> 0,
     prev |-> ZeroV, ok |-> FALSE, i |-> 0, n |-> 0, stop |-> 0, seen |-> << >>]

\* return gkey & m.shardIDMax, makeHash(gkey)
choose(key, idMax) ==
    LET gkey == Digest(key)
    IN  [shard |-> BitAnd(gkey, idMax), hashkey |-> makeHash(gkey)]

RECURSIVE ShardCount(_)
\* m.shards = 1; for m.shards < runtime.NumCPU()*16 { m.shards *= 2 }
ShardCount(n) == IF n < NumCPU * 16 THEN ShardCount(n * 2) ELSE n

\* the per-shard capacity hint: m.cap / m.shards
ShardCap(c, n) == c \div n

\* the capacity hints New is called with
Caps == {0, MaxShardCap * ShardCount(1)}

\* The callers explored, each a capacity hint, the keys and the values it
\* uses: one crowds a single shard with enough keys to make its table grow,
\* one spreads fewer keys over two shards, one has more keys for a single
\* shard than a table of the smallest size has buckets, one asks for tables
\* of HintShardCap and puts a few keys into one of them.
InShard0(k) == BitAnd(Digest(k), ShardCount(1) - 1) = 0
WideKeys == {k \in Keys : k < WideN /\ InShard0(k)}
FillKeys == {k \in Keys : k < FillN /\ InShard0(k)}
CrossKeys == {k \in Keys : k < CrossN \/ ~InShard0(k)}
HintKeys == {k \in Keys : k < HintN /\ InShard0(k)}
Callers ==
    {[cap |-> c, keys |-> CrossKeys, values |-> Values] : c \in Caps}
    \cup {[cap |-> 0, keys |-> WideKeys, values |-> Values],
          [cap |-> 0, keys |-> FillKeys, values |-> {Dolly}],
          [cap |-> HintShardCap * ShardCount(1), keys |-> HintKeys,
           values |-> {Dolly}]}

Accepts == {"nil", "true", "false"}

\* New(c): the state after m := &Map{cap: c}; m.Init(), for the caller w
Constructed(w) ==
      LET c == w.cap IN
        /\ cap = c
        /\ univ = [keys |-> w.keys, values |-> w.values]
        /\ shards = ShardCount(1)
        /\ shardIDMax = ShardCount(1) - 1
        /\ maps = [i \in 1 .. ShardCount(1) |-> newShard(ShardCap(c, ShardCount(1)))]
        /\ dict = [k \in Keys |-> None]
        /\ hung = FALSE
        /\ mus = [i \in 1 .. ShardCount(1) |-> FreeMu]
        /\ once = "done"
        /\ pc = [t \in Threads |-> "idle"]
        /\ loc = [t \in Threads |-> NoLoc]
        /\ ncalls = [t \in Threads |-> 0]
        /\ panicked = FALSE
        /\ stale = FALSE

Init == \E w \in Callers : Constructed(w)

\* Map.Set on the shards ms
MapSet(ms, key, value) ==
    LET c == choose(key, shardIDMax)
        r == SetWithHash(ms[c.shard + 1], c.hashkey, key, value)
    IN  [maps |-> [ms EXCEPT ![c.shard + 1] = r.m],
         prev |-> r.prev, ok |-> r.ok, hung |-> r.hung, rs |-> r.rs]

\* Map.Get on the shards ms
MapGet(ms, key) ==
    LET c == choose(key, shardIDMax)
    IN  GetWithHash(ms[c.shard + 1], c.hashkey, key)

\* Map.Delete on the shards ms
MapDelete(ms, key) ==
    LET c == choose(key, shardIDMax)
        r == DeleteWithHash(ms[c.shard + 1], c.hashkey, key)
    IN  [maps |-> [ms EXCEPT ![c.shard + 1] = r.m],
         prev |-> r.prev, ok |-> r.ok, hung |-> r.hung, rs |-> r.rs]

\* mutant: the rollback deletes the key, also when the call replaced a value
MapSetAcceptDeletes(ms, key, value, acc) ==
    LET c  == choose(key, shardIDMax)
        r  == SetWithHash(ms[c.shard + 1], c.hashkey, key, value)
        rb == DeleteWithHash(r.m, c.hashkey, key)
    IN  IF r.hung \/ acc # "false"
        THEN [maps |-> [ms EXCEPT ![c.shard + 1] = r.m],
              prev |-> r.prev, ok |-> r.ok, hung |-> r.hung, rs |-> r.rs]
        ELSE [maps |-> [ms EXCEPT ![c.shard + 1] = rb.m],
              prev |-> ZeroV, ok |-> FALSE, hung |-> rb.hung, rs |-> r.rs \/ rb.rs]

\* Map.SetAccept on the shards ms, with accept nil or answering acc
MapSetAccept(ms, key, value, acc) ==
    LET c  == choose(key, shardIDMax)
        r  == SetWithHash(ms[c.shard + 1], c.hashkey, key, value)
        rb == IF ~r.ok THEN DeleteWithHash(r.m, c.hashkey, key)
              ELSE SetWithHash(r.m, c.hashkey, key, r.prev)
    IN  IF r.hung \/ acc # "false"
        THEN [maps |-> [ms EXCEPT ![c.shard + 1] = r.m],
              prev |-> r.prev, ok |-> r.ok, hung |-> r.hung, rs |-> r.rs]
        ELSE [maps |-> [ms EXCEPT ![c.shard + 1] = rb.m],
              prev |-> ZeroV, ok |-> FALSE, hung |-> rb.hung, rs |-> r.rs \/ rb.rs]

\* mutant: a rejected delete is not reverted
MapDeleteAcceptKeeps(ms, key, acc) ==
    LET c == choose(key, shardIDMax)
        r == DeleteWithHash(ms[c.shard + 1], c.hashkey, key)
    IN  IF r.hung \/ acc # "false"
        THEN [maps |-> [ms EXCEPT ![c.shard + 1] = r.m],
              prev |-> r.prev, ok |-> r.ok, hung |-> r.hung, rs |-> r.rs]
        ELSE [maps |-> [ms EXCEPT ![c.shard + 1] = r.m],
              prev |-> ZeroV, ok |-> FALSE, hung |-> r.hung, rs |-> r.rs]

\* Map.DeleteAccept on the shards ms, with accept nil or answering acc
MapDeleteAccept(ms, key, acc) ==
    LET c  == choose(key, shardIDMax)
        r  == DeleteWithHash(ms[c.shard + 1], c.hashkey, key)
        rb == IF r.ok THEN SetWithHash(r.m, c.hashkey, key, r.prev)
              ELSE [m |-> r.m, hung |-> FALSE, rs |-> FALSE]
    IN  IF r.hung \/ acc # "false"
        THEN [maps |-> [ms EXCEPT ![c.shard + 1] = r.m],
              prev |-> r.prev, ok |-> r.ok, hung |-> r.hung, rs |-> r.rs]
        ELSE [maps |-> [ms EXCEPT ![c.shard + 1] = rb.m],
              prev |-> ZeroV, ok |-> FALSE, hung |-> rb.hung, rs |-> r.rs \/ rb.rs]

RECURSIVE lenLoop(_, _, _)
\* for i := 0; i < m.shards; i++ { len += m.maps[i].Len() }
lenLoop(ms, i, n) ==
    IF i >= shards THEN n ELSE lenLoop(ms, i + 1, n + ShardLen(ms[i + 1]))

MapLen(ms) == lenLoop(ms, 0, 0)

RECURSIVE rangeLoop(_, _, _, _)
\* for i := 0; i < m.shards; i++ { Scan shard i; if done { break } }
rangeLoop(ms, i, calls, stop) ==
    IF i >= shards THEN calls
    ELSE LET r == Scan(ms[i + 1], calls, stop)
         IN  IF r.done THEN r.calls ELSE rangeLoop(ms, i + 1, r.calls, stop)

MapRange(ms, stop) == rangeLoop(ms, 0, << >>, stop)

\* mutant: Clear allocates each table at the size the old one had
MapClearKeepsSize(ms) == [i \in 1 .. shards |-> newShard(Len(ms[i].buckets))]

\* m.maps[i] = newShard(m.cap / m.shards) for every shard i
MapClear(ms) == [i \in 1 .. shards |-> newShard(ShardCap(cap, shards))]

(***************************************************************************)
(* The calls of a single caller. A call that only reads (Get, Len, Range)  *)
(* leaves the state as it is; what it returns is MapGet, MapLen, MapRange  *)
(* of the state.                                                           *)
(***************************************************************************)
Mutate(r) ==
    /\ maps' = r.maps
    /\ hung' = r.hung
    /\ UNCHANGED <<cap, shards, shardIDMax, univ, tvars>>

Set(key, value) ==
    /\ ~hung
    /\ Mutate(MapSet(maps, key, value))
    /\ dict' = [dict EXCEPT ![key] = value]

SetAccept(key, value, acc) ==
    /\ ~hung
    /\ Mutate(MapSetAccept(maps, key, value, acc))
    /\ dict' = IF acc = "false" THEN dict ELSE [dict EXCEPT ![key] = value]

Get(key) ==
    /\ ~hung
    /\ hung' = MapGet(maps, key).hung
    /\ UNCHANGED <<cap, shards, shardIDMax, maps, univ, dict, tvars>>

Delete(key) ==
    /\ ~hung
    /\ Mutate(MapDelete(maps, key))
    /\ dict' = [dict EXCEPT ![key] = None]

DeleteAccept(key, acc) ==
    /\ ~hung
    /\ Mutate(MapDeleteAccept(maps, key, acc))
    /\ dict' = IF acc = "false" THEN dict ELSE [dict EXCEPT ![key] = None]

LenCall ==
    /\ ~hung
    /\ MapLen(maps) >= 0
    /\ UNCHANGED vars

Range(stop) ==
    /\ ~hung
    /\ Len(MapRange(maps, stop)) >= 0
    /\ UNCHANGED vars

Clear ==
    /\ ~hung
    /\ maps' = MapClear(maps)
    /\ dict' = [k \in Keys |-> None]
    /\ UNCHANGED <<cap, shards, shardIDMax, univ, hung, tvars>>

Next ==
    \/ \E k \in univ.keys, v \in univ.values : Set(k, v)
    \/ \E k \in univ.keys, v \in univ.values, a \in Accepts : SetAccept(k, v, a)
    \/ \E k \in univ.keys : Get(k)
    \/ \E k \in univ.keys : Delete(k)
    \/ \E k \in univ.keys, a \in Accepts : DeleteAccept(k, a)
    \/ LenCall
    \/ \E s \in 0 .. MaxStop : Range(s)
    \/ Clear

Spec == Init /\ [][Next]_vars

(***************************************************************************)
(* Threads sharing the map. A thread's call is a sequence of steps: taking *)
(* a shard's lock, what the call does under the lock, and the unlock with  *)
(* the return. accept is called between the tentative step and the last    *)
(* step of SetAccept and DeleteAccept. A call that indexes m.mus past its  *)
(* end panics, and a panic ends the program. A call whose probe loop never *)
(* ends stays in the loop, with the lock it holds.                         *)
(***************************************************************************)
\* what Get returns for key k of the dictionary d
AbsGet(d, k) ==
    IF d[k] = None THEN [value |-> ZeroV, ok |-> FALSE, hung |-> FALSE]
    ELSE [value |-> d[k], ok |-> TRUE, hung |-> FALSE]

\* the keys of the dictionary d
Present(d) == {k \in Keys : d[k] # None}

\* the keys of shard i (from 0) in the dictionary d, with their values
Committed(d, i) ==
    {<<k, d[k]>> : k \in {x \in Present(d) : choose(x, shardIDMax).shard = i}}

ThreadKeys == {k \in Keys : k < ThreadN \/ ~InShard0(k)}

\* a Lock that waits for the writer only, not for the readers
CanLockOverReaders(mu) == mu.w = 0

\* m.mus[i].Lock() returns when there is no writer and no reader
CanLock(mu) == mu.w = 0 /\ mu.r = {}
\* m.mus[i].RLock() returns when there is no writer
CanRLock(mu) == mu.w = 0

\* thread t is free to make a call
Calling(t) == ~panicked /\ pc[t] = "idle" /\ ncalls[t] < MaxCalls

Goto(t, p, l) ==
    /\ pc' = [pc EXCEPT ![t] = p]
    /\ loc' = [loc EXCEPT ![t] = l]

Return(t) ==
    /\ pc' = [pc EXCEPT ![t] = "idle"]
    /\ loc' = [loc EXCEPT ![t] = NoLoc]
    /\ ncalls' = [ncalls EXCEPT ![t] = @ + 1]

\* what a call returned, as Get would return it
Ret(r) == [value |-> r.prev, ok |-> r.ok, hung |-> FALSE]

\* The Map is in the hands of the threads: always when it is a zero-valued
\* variable, only once Init has returned when New is making it.
Shared == cap = 0 \/ once = "done"

\* a later Init that runs the body again
InitAgainRuns(t) ==
    /\ Calling(t)
    /\ once = "done"
    /\ mus' = [i \in 1 .. ShardCount(1) |-> FreeMu]
    /\ maps' = [i \in 1 .. ShardCount(1) |-> newShard(ShardCap(cap, ShardCount(1)))]
    /\ Return(t)
    /\ UNCHANGED <<cap, shards, shardIDMax, univ, dict, hung, once, panicked,
                   stale>>

\* m.init.Do(func() {...}): the first caller runs the body
InitBegin(t) ==
    /\ Calling(t)
    /\ once = "none"
    /\ once' = "running"
    /\ pc' = [pc EXCEPT ![t] = "Init"]
    /\ UNCHANGED <<cap, shards, shardIDMax, maps, univ, dict, hung, mus, loc,
                   ncalls, panicked, stale>>

\* the body of Init, and the return from it
InitEnd(t) ==
    /\ ~panicked
    /\ pc[t] = "Init"
    /\ shards' = ShardCount(1)
    /\ shardIDMax' = ShardCount(1) - 1
    /\ mus' = [i \in 1 .. ShardCount(1) |-> FreeMu]
    /\ maps' = [i \in 1 .. ShardCount(1) |-> newShard(ShardCap(cap, ShardCount(1)))]
    /\ once' = "done"
    /\ Return(t)
    /\ UNCHANGED <<cap, univ, dict, hung, panicked, stale>>

\* m.init.Do on a sync.Once that is done returns at once
InitAgain(t) ==
    /\ Calling(t)
    /\ once = "done"
    /\ Return(t)
    /\ UNCHANGED <<cap, shards, shardIDMax, maps, univ, dict, hung, mus, once,
                   panicked, stale>>

\* m.mus[shard] of Set, SetAccept, Get, Delete and DeleteAccept with shard
\* not below len(m.mus): index out of range
IndexPanic(t) ==
    /\ Calling(t)
    /\ Shared
    /\ \E k \in univ.keys : choose(k, shardIDMax).shard >= Len(mus)
    /\ panicked' = TRUE
    /\ UNCHANGED <<cap, shards, shardIDMax, maps, univ, dict, hung, mus, once,
                   pc, loc, ncalls, stale>>

\* shard, shardKey := m.choose(key); m.mus[shard].Lock()
LockFor(t, p, key, value, acc) ==
    LET c == choose(key, shardIDMax)
    IN  /\ Calling(t)
        /\ c.shard < Len(mus)
        /\ CanLock(mus[c.shard + 1])
        /\ mus' = [mus EXCEPT ![c.shard + 1].w = t]
        /\ Goto(t, p, [NoLoc EXCEPT !.key = key, !.value = value, !.acc = acc,
                                    !.shard = c.shard, !.hashkey = c.hashkey])
        /\ UNCHANGED <<cap, shards, shardIDMax, maps, univ, dict, hung, once,
                       ncalls, panicked, stale>>

\* m.mus[shard].Unlock() and the return
UnlockReturn(t) ==
    /\ mus' = [mus EXCEPT ![loc[t].shard + 1].w = 0]
    /\ Return(t)

SetLock(t, key, value) == LockFor(t, "Set", key, value, "nil")

\* prev, replaced = m.maps[shard].SetWithHash(shardKey, key, value); Unlock
SetDo(t) ==
    LET l == loc[t]
        r == SetWithHash(maps[l.shard + 1], l.hashkey, l.key, l.value)
    IN  /\ ~panicked
        /\ pc[t] = "Set"
        /\ ~r.hung
        /\ maps' = [maps EXCEPT ![l.shard + 1] = r.m]
        /\ stale' = (stale \/ Ret(r) # AbsGet(dict, l.key))
        /\ dict' = [dict EXCEPT ![l.key] = l.value]
        /\ UnlockReturn(t)
        /\ UNCHANGED <<cap, shards, shardIDMax, univ, hung, once, panicked>>

\* m.mus[shard].Lock(); defer m.mus[shard].Unlock()
SetAcceptLock(t, key, value, acc) == LockFor(t, "SetAccept", key, value, acc)

\* SetAccept with the Unlock of Set, right after SetWithHash, in place of
\* the deferred one
SetAcceptTentativeUnlocks(t) ==
    LET l == loc[t]
        r == SetWithHash(maps[l.shard + 1], l.hashkey, l.key, l.value)
    IN  /\ ~panicked
        /\ pc[t] = "SetAccept"
        /\ ~r.hung
        /\ maps' = [maps EXCEPT ![l.shard + 1] = r.m]
        /\ stale' = (stale \/ Ret(r) # AbsGet(dict, l.key))
        /\ dict' = IF l.acc = "false" THEN dict ELSE [dict EXCEPT ![l.key] = l.value]
        /\ mus' = [mus EXCEPT ![l.shard + 1].w = 0]
        /\ Goto(t, "SetAcceptTentative", [l EXCEPT !.prev = r.prev, !.ok = r.ok])
        /\ UNCHANGED <<cap, shards, shardIDMax, univ, hung, once, ncalls, panicked>>

\* prev, replaced = m.maps[shard].SetWithHash(shardKey, key, value), after
\* which accept is called, unless it is nil
SetAcceptTentative(t) ==
    LET l == loc[t]
        r == SetWithHash(maps[l.shard + 1], l.hashkey, l.key, l.value)
    IN  /\ ~panicked
        /\ pc[t] = "SetAccept"
        /\ ~r.hung
        /\ maps' = [maps EXCEPT ![l.shard + 1] = r.m]
        /\ stale' = (stale \/ Ret(r) # AbsGet(dict, l.key))
        /\ dict' = IF l.acc = "false" THEN dict ELSE [dict EXCEPT ![l.key] = l.value]
        /\ Goto(t, "SetAcceptTentative", [l EXCEPT !.prev = r.prev, !.ok = r.ok])
        /\ UNCHANGED <<cap, shards, shardIDMax, univ, hung, mus, once, ncalls,
                       panicked>>

\* the revert of a change accept rejected, and the return with the
\* deferred Unlock
SetAcceptReturn(t) ==
    LET l  == loc[t]
        m  == maps[l.shard + 1]
        rb == IF l.acc # "false" THEN m
              ELSE IF ~l.ok THEN DeleteWithHash(m, l.hashkey, l.key).m
              ELSE SetWithHash(m, l.hashkey, l.key, l.prev).m
    IN  /\ ~panicked
        /\ pc[t] = "SetAcceptTentative"
        /\ maps' = [maps EXCEPT ![l.shard + 1] = rb]
        /\ UnlockReturn(t)
        /\ UNCHANGED <<cap, shards, shardIDMax, univ, dict, hung, once, panicked,
                       stale>>

\* shard, shardKey := m.choose(key); m.mus[shard].RLock()
GetRLock(t, key) ==
    LET c == choose(key, shardIDMax)
    IN  /\ Calling(t)
        /\ c.shard < Len(mus)
        /\ CanRLock(mus[c.shard + 1])
        /\ mus' = [mus EXCEPT ![c.shard + 1].r = @ \cup {t}]
        /\ Goto(t, "Get", [NoLoc EXCEPT !.key = key, !.shard = c.shard,
                                        !.hashkey = c.hashkey])
        /\ UNCHANGED <<cap, shards, shardIDMax, maps, univ, dict, hung, once,
                       ncalls, panicked, stale>>

\* value, ok = m.maps[shard].GetWithHash(shardKey, key); RUnlock
GetDo(t) ==
    LET l == loc[t]
        r == GetWithHash(maps[l.shard + 1], l.hashkey, l.key)
    IN  /\ ~panicked
        /\ pc[t] = "Get"
        /\ ~r.hung
        /\ stale' = (stale \/ r # AbsGet(dict, l.key))
        /\ mus' = [mus EXCEPT ![l.shard + 1].r = @ \ {t}]
        /\ Return(t)
        /\ UNCHANGED <<cap, shards, shardIDMax, maps, univ, dict, hung, once,
                       panicked>>

DeleteLock(t, key) == LockFor(t, "Delete", key, ZeroV, "nil")

\* prev, deleted = m.maps[shard].DeleteWithHash(shardKey, key); Unlock
DeleteDo(t) ==
    LET l == loc[t]
        r == DeleteWithHash(maps[l.shard + 1], l.hashkey, l.key)
    IN  /\ ~panicked
        /\ pc[t] = "Delete"
        /\ ~r.hung
        /\ maps' = [maps EXCEPT ![l.shard + 1] = r.m]
        /\ stale' = (stale \/ Ret(r) # AbsGet(dict, l.key))
        /\ dict' = [dict EXCEPT ![l.key] = None]
        /\ UnlockReturn(t)
        /\ UNCHANGED <<cap, shards, shardIDMax, univ, hung, once, panicked>>

\* m.mus[shard].Lock(); defer m.mus[shard].Unlock()
DeleteAcceptLock(t, key, acc) == LockFor(t, "DeleteAccept", key, ZeroV, acc)

\* prev, deleted = m.maps[shard].DeleteWithHash(shardKey, key), after which
\* accept is called, unless it is nil
DeleteAcceptTentative(t) ==
    LET l == loc[t]
        r == DeleteWithHash(maps[l.shard + 1], l.hashkey, l.key)
    IN  /\ ~panicked
        /\ pc[t] = "DeleteAccept"
        /\ ~r.hung
        /\ maps' = [maps EXCEPT ![l.shard + 1] = r.m]
        /\ stale' = (stale \/ Ret(r) # AbsGet(dict, l.key))
        /\ dict' = IF l.acc = "false" THEN dict ELSE [dict EXCEPT ![l.key] = None]
        /\ Goto(t, "DeleteAcceptTentative", [l EXCEPT !.prev = r.prev, !.ok = r.ok])
        /\ UNCHANGED <<cap, shards, shardIDMax, univ, hung, mus, once, ncalls,
                       panicked>>

\* the revert of a delete accept rejected, and the return with the
\* deferred Unlock
DeleteAcceptReturn(t) ==
    LET l  == loc[t]
        m  == maps[l.shard + 1]
        rb == IF l.acc = "false" /\ l.ok
              THEN SetWithHash(m, l.hashkey, l.key, l.prev).m
              ELSE m
    IN  /\ ~panicked
        /\ pc[t] = "DeleteAcceptTentative"
        /\ maps' = [maps EXCEPT ![l.shard + 1] = rb]
        /\ UnlockReturn(t)
        /\ UNCHANGED <<cap, shards, shardIDMax, univ, dict, hung, once, panicked,
                       stale>>

\* thread t starts the call p, or is in its loop over the shards
InLoop(t, p) == ~panicked /\ (Calling(t) \/ pc[t] = p)

\* Len on a map without shards: the loop body never runs
LenNone(t) ==
    /\ Calling(t)
    /\ Shared
    /\ shards = 0
    /\ Return(t)
    /\ UNCHANGED <<cap, shards, shardIDMax, maps, univ, dict, hung, mus, once,
                   panicked, stale>>

\* for i := 0; i < m.shards; i++ { m.mus[i].Lock()
LenLock(t) ==
    LET i == loc[t].i
    IN  /\ InLoop(t, "Len")
        /\ i < shards
        /\ CanLock(mus[i + 1])
        /\ mus' = [mus EXCEPT ![i + 1].w = t]
        /\ pc' = [pc EXCEPT ![t] = "LenLocked"]
        /\ UNCHANGED <<cap, shards, shardIDMax, maps, univ, dict, hung, once,
                       loc, ncalls, panicked, stale>>

\* len += m.maps[i].Len(); m.mus[i].Unlock() }, and the return after the
\* last shard
LenRead(t) ==
    LET l == loc[t]
    IN  /\ ~panicked
        /\ pc[t] = "LenLocked"
        /\ stale' = (stale \/ ShardLen(maps[l.i + 1]) # Cardinality(Committed(dict, l.i)))
        /\ mus' = [mus EXCEPT ![l.i + 1].w = 0]
        /\ IF l.i + 1 < shards
           THEN /\ Goto(t, "Len", [l EXCEPT !.i = l.i + 1,
                                            !.n = l.n + ShardLen(maps[l.i + 1])])
                /\ UNCHANGED ncalls
           ELSE Return(t)
        /\ UNCHANGED <<cap, shards, shardIDMax, maps, univ, dict, hung, once,
                       panicked>>

\* for i := 0; i < m.shards; i++ { func() { m.mus[i].RLock()
RangeRLock(t, stop) ==
    LET i == loc[t].i
    IN  /\ InLoop(t, "Range")
        /\ pc[t] = "Range" => loc[t].stop = stop
        /\ i < shards
        /\ CanRLock(mus[i + 1])
        /\ mus' = [mus EXCEPT ![i + 1].r = @ \cup {t}]
        /\ Goto(t, "RangeLocked", [loc[t] EXCEPT !.stop = stop])
        /\ UNCHANGED <<cap, shards, shardIDMax, maps, univ, dict, hung, once,
                       ncalls, panicked, stale>>

\* m.maps[i].Scan(...); the deferred RUnlock; if done { break } }
RangeScan(t) ==
    LET l   == loc[t]
        r   == Scan(maps[l.i + 1], l.seen, l.stop)
        new == {r.calls[j] : j \in Len(l.seen) + 1 .. Len(r.calls)}
    IN  /\ ~panicked
        /\ pc[t] = "RangeLocked"
        /\ stale' = (stale \/ ~(new \subseteq Committed(dict, l.i))
                           \/ (~r.done /\ new # Committed(dict, l.i)))
        /\ mus' = [mus EXCEPT ![l.i + 1].r = @ \ {t}]
        /\ IF ~r.done /\ l.i + 1 < shards
           THEN /\ Goto(t, "Range", [l EXCEPT !.i = l.i + 1, !.seen = r.calls])
                /\ UNCHANGED ncalls
           ELSE Return(t)
        /\ UNCHANGED <<cap, shards, shardIDMax, maps, univ, dict, hung, once,
                       panicked>>

\* for i := 0; i < m.shards; i++ { m.mus[i].Lock()
ClearLock(t) ==
    LET i == loc[t].i
    IN  /\ InLoop(t, "Clear")
        /\ i < shards
        /\ CanLock(mus[i + 1])
        /\ mus' = [mus EXCEPT ![i + 1].w = t]
        /\ pc' = [pc EXCEPT ![t] = "ClearLocked"]
        /\ UNCHANGED <<cap, shards, shardIDMax, maps, univ, dict, hung, once,
                       loc, ncalls, panicked, stale>>

\* m.maps[i] = newShard(m.cap / m.shards); m.mus[i].Unlock() }
ClearDo(t) ==
    LET l == loc[t]
    IN  /\ ~panicked
        /\ pc[t] = "ClearLocked"
        /\ maps' = [maps EXCEPT ![l.i + 1] = newShard(ShardCap(cap, shards))]
        /\ dict' = [k \in Keys |->
                      IF choose(k, shardIDMax).shard = l.i THEN None ELSE dict[k]]
        /\ mus' = [mus EXCEPT ![l.i + 1].w = 0]
        /\ IF l.i + 1 < shards
           THEN /\ Goto(t, "Clear", [l EXCEPT !.i = l.i + 1])
                /\ UNCHANGED ncalls
           ELSE Return(t)
        /\ UNCHANGED <<cap, shards, shardIDMax, univ, hung, once, panicked, stale>>

\* threads calling a map that New(0) made
InitThreads == Constructed([cap |-> 0, keys |-> ThreadKeys, values |-> {Dolly}])

NextThreads ==
    \E t \in Threads :
        \/ \E k \in univ.keys, v \in univ.values : SetLock(t, k, v)
        \/ SetDo(t)
        \/ \E k \in univ.keys, v \in univ.values, a \in Accepts :
              SetAcceptLock(t, k, v, a)
        \/ SetAcceptTentative(t)
        \/ SetAcceptReturn(t)
        \/ \E k \in univ.keys : GetRLock(t, k)
        \/ GetDo(t)
        \/ \E k \in univ.keys : DeleteLock(t, k)
        \/ DeleteDo(t)
        \/ \E k \in univ.keys, a \in Accepts : DeleteAcceptLock(t, k, a)
        \/ DeleteAcceptTentative(t)
        \/ DeleteAcceptReturn(t)
        \/ LenLock(t)
        \/ LenRead(t)
        \/ \E s \in 0 .. MaxStop : RangeRLock(t, s)
        \/ RangeScan(t)
        \/ ClearLock(t)
        \/ ClearDo(t)

SpecThreads == InitThreads /\ [][NextThreads]_vars

\* threads calling a zero-valued map, var m shardmap.Map, or the map that
\* New has allocated and not initialized yet, &Map{cap: cap}
InitLazy ==
    /\ cap \in {0, MaxShardCap * ShardCount(1)}
    /\ shards = 0
    /\ shardIDMax = 0
    /\ maps = << >>
    /\ mus = << >>
    /\ univ = [keys |-> ThreadKeys, values |-> Values]
    /\ dict = [k \in Keys |-> None]
    /\ hung = FALSE
    /\ once = "none"
    /\ pc = [t \in Threads |-> "idle"]
    /\ loc = [t \in Threads |-> NoLoc]
    /\ ncalls = [t \in Threads |-> 0]
    /\ panicked = FALSE
    /\ stale = FALSE

NextLazy ==
    \E t \in Threads :
        \/ InitBegin(t)
        \/ InitEnd(t)
        \/ InitAgain(t)
        \/ IndexPanic(t)
        \/ \E k \in univ.keys, v \in univ.values : SetLock(t, k, v)
        \/ SetDo(t)
        \/ \E k \in univ.keys : GetRLock(t, k)
        \/ GetDo(t)
        \/ \E k \in univ.keys : DeleteLock(t, k)
        \/ DeleteDo(t)
        \/ LenNone(t)
        \/ LenLock(t)
        \/ LenRead(t)

SpecLazy == InitLazy /\ [][NextLazy]_vars

\* Threads whose calls take the locks in every way the code takes them: one
\* shard's lock for writing (Set), one for reading (Get), every shard's in
\* turn for writing (Len, Clear) and for reading (Range).
InitLocks == Constructed([cap |-> 0, keys |-> {ZeroK}, values |-> {Dolly}])

\* a step of thread t that waits for a lock
LockStep(t) ==
    \/ \E k \in univ.keys, v \in univ.values : SetLock(t, k, v)
    \/ \E k \in univ.keys : GetRLock(t, k)
    \/ LenLock(t)
    \/ \E s \in 0 .. MaxStop : RangeRLock(t, s)
    \/ ClearLock(t)

\* a step of thread t that waits for nothing
BodyStep(t) ==
    \/ SetDo(t)
    \/ GetDo(t)
    \/ LenRead(t)
    \/ RangeScan(t)
    \/ ClearDo(t)

NextLocks == \E t \in Threads : LockStep(t) \/ BodyStep(t)

\* The scheduler runs every goroutine that can run: one that holds a lock
\* goes on to its Unlock, one whose lock is free takes it.
FairLocks == \A t \in Threads : WF_vars(LockStep(t)) /\ WF_vars(BodyStep(t))

SpecLocks == InitLocks /\ [][NextLocks]_vars /\ FairLocks

\* shard, shardKey := m.choose(key) of Delete: the thread has not asked
\* for the lock yet
DeleteCall(t, key) ==
    LET c == choose(key, shardIDMax)
    IN  /\ Calling(t)
        /\ c.shard < Len(mus)
        /\ Goto(t, "DeleteCalled", [NoLoc EXCEPT !.key = key, !.shard = c.shard,
                                                 !.hashkey = c.hashkey])
        /\ UNCHANGED <<cap, shards, shardIDMax, maps, univ, dict, hung, mus,
                       once, ncalls, panicked, stale>>

\* m.mus[shard].Lock() of Delete returns
DeleteLockCalled(t) ==
    /\ ~panicked
    /\ pc[t] = "DeleteCalled"
    /\ CanLock(mus[loc[t].shard + 1])
    /\ mus' = [mus EXCEPT ![loc[t].shard + 1].w = t]
    /\ pc' = [pc EXCEPT ![t] = "Delete"]
    /\ UNCHANGED <<cap, shards, shardIDMax, maps, univ, dict, hung, once, loc,
                   ncalls, panicked, stale>>

RECURSIVE SetKeys(_, _)
\* the shard m after SetWithHash of the keys 0 .. n - 1 with Dolly
SetKeys(m, n) ==
    IF n = 0 THEN m
    ELSE SetWithHash(SetKeys(m, n - 1), makeHash(Digest(n - 1)), n - 1, Dolly).m

\* a shard hinted HintShardCap after Set of HintN keys and Delete of the last
SpunShard ==
    DeleteWithHash(SetKeys(newShard(HintShardCap), HintN),
                   makeHash(Digest(HintN - 1)), HintN - 1).m

\* Threads that share a map which its maker, New with a hint of HintShardCap
\* per shard, has put HintN keys of one shard into and deleted the last of
\* them from, before handing it to the threads.
InitSpin ==
    /\ cap = HintShardCap * ShardCount(1)
    /\ shards = ShardCount(1)
    /\ shardIDMax = ShardCount(1) - 1
    /\ maps = [i \in 1 .. shards |->
                 IF i = 1 THEN SpunShard ELSE newShard(ShardCap(cap, shards))]
    /\ univ = [keys |-> {ZeroK, HintN - 1}, values |-> {Dolly}]
    /\ dict = [k \in Keys |-> IF k < HintN - 1 THEN Dolly ELSE None]
    /\ hung = FALSE
    /\ mus = [i \in 1 .. shards |-> FreeMu]
    /\ once = "done"
    /\ pc = [t \in Threads |-> "idle"]
    /\ loc = [t \in Threads |-> NoLoc]
    /\ ncalls = [t \in Threads |-> 0]
    /\ panicked = FALSE
    /\ stale = FALSE

\* a step of thread t that waits for a lock
SpinLockStep(t) ==
    \/ DeleteLockCalled(t)
    \/ \E k \in univ.keys : GetRLock(t, k)

\* a step of thread t that waits for nothing
SpinBodyStep(t) ==
    \/ \E k \in univ.keys : DeleteCall(t, k)
    \/ GetDo(t)
    \/ DeleteDo(t)

NextSpin == \E t \in Threads : SpinLockStep(t) \/ SpinBodyStep(t)

FairSpin == \A t \in Threads : WF_vars(SpinLockStep(t)) /\ WF_vars(SpinBodyStep(t))

SpecSpin == InitSpin /\ [][NextSpin]_vars /\ FairSpin

(***************************************************************************)
(* Properties. A call that a property makes in a state is the call the     *)
(* single caller could make there: Spec takes every such call as a step.   *)
(***************************************************************************)
\* what Get returns for every key, on the shards ms
Contents(ms) == [k \in Keys |-> MapGet(ms, k)]

\* the occupied buckets of the shard m
Occupied(m) == {i \in 1 .. Len(m.buckets) : dib(m.buckets[i]) > 0}

\* the smallest power of two that is >= 8 and >= c
RECURSIVE SmallestPow2(_, _)
SmallestPow2(p, c) == IF p >= 8 /\ p >= c THEN p ELSE SmallestPow2(2 * p, c)

\* C1: in every state reached by Set, Delete, SetAccept, DeleteAccept and
\* Clear, whatever the capacity hint and through grow and shrink resizes,
\* Get(k) returns (v, true) exactly when the last accepted mutation of k was
\* a Set or SetAccept of v, and (zero value, false) otherwise.
C1_GetRefinesDict ==
    ~hung /\ \A k \in Keys : MapGet(maps, k) = AbsGet(dict, k)

\* a table that grew to 16 buckets and lost keys since, with a key still
\* found with its value
C1_Witness ==
    /\ cap = 0
    /\ Len(maps[1].buckets) = 16
    /\ maps[1].length = 3
    /\ \E k \in Keys : dict[k] = Dolly /\ MapGet(maps, k).ok /\ MapGet(maps, k).value = Dolly

\* C2: in every reachable state Set(k, v2) returns (v1, true) when k is
\* present with v1 and (zero value, false) when k is absent; Delete(k)
\* returns (v, true) when k is present with v and (zero value, false) when it
\* is absent, and a Get(k) right after the Delete returns (zero value, false).
C2_MutationReturns ==
    \A k \in Keys :
        /\ \A v \in univ.values :
              LET r == MapSet(maps, k, v)
              IN  /\ ~r.hung
                  /\ r.ok = (dict[k] # None)
                  /\ r.prev = (IF dict[k] = None THEN ZeroV ELSE dict[k])
        /\ LET d == MapDelete(maps, k)
           IN  /\ ~d.hung
               /\ d.ok = (dict[k] # None)
               /\ d.prev = (IF dict[k] = None THEN ZeroV ELSE dict[k])
               /\ MapGet(d.maps, k) = [value |-> ZeroV, ok |-> FALSE, hung |-> FALSE]

\* a key present with a value: a Set of another value returns (the value,
\* true) and a Delete returns (the value, true), while another key of the
\* same stored hash is absent
C2_Witness ==
    /\ dict[0] = Dolly /\ dict[1] = None
    /\ MapSet(maps, 0, ZeroV).ok /\ MapSet(maps, 0, ZeroV).prev = Dolly
    /\ MapDelete(maps, 0).ok /\ MapDelete(maps, 0).prev = Dolly
    /\ ~MapSet(maps, 1, ZeroV).ok

\* C3: in every reachable state Len() is the number of keys present, and
\* each shard's length counter is the number of its occupied buckets.
C3_LenCountsKeys ==
    /\ MapLen(maps) = Cardinality(Present(dict))
    /\ \A i \in 1 .. shards : ShardLen(maps[i]) = Cardinality(Occupied(maps[i]))

\* keys in two shards, after a shrink below the hinted size
C3_Witness ==
    /\ MapLen(maps) = 3
    /\ maps[1].length = 2 /\ maps[2].length = 1
    /\ maps[1].cap = MaxShardCap /\ Len(maps[1].buckets) = 8

\* C4: in every reachable state a SetAccept(k, v, accept) whose accept
\* returns false returns (zero value, false) and leaves what Get returns for
\* every key, and Len(), as they were, also when the tentative insert grew
\* the table or the rollback shrank it.
C4_SetAcceptRejectFrame ==
    \A k \in univ.keys, v \in univ.values :
        LET r == MapSetAccept(maps, k, v, "false")
        IN  /\ ~r.hung
            /\ r.prev = ZeroV /\ ~r.ok
            /\ Contents(r.maps) = Contents(maps)
            /\ MapLen(r.maps) = MapLen(maps)

\* a rejected SetAccept of another value on a present key, whose tentative
\* Set resized the table
C4_Witness ==
    \E k \in univ.keys, v \in univ.values :
        /\ dict[k] # None /\ dict[k] # v
        /\ MapSetAccept(maps, k, v, "false").rs
        /\ MapSetAccept(maps, k, v, "false").maps # maps

\* C5: in every reachable state a DeleteAccept(k, accept) whose accept
\* returns false returns (zero value, false) and leaves what Get returns for
\* every key, and Len(), as they were; with accept nil or returning true the
\* call does what Delete(k) does.
C5_DeleteAcceptFrame ==
    \A k \in univ.keys :
        /\ LET r == MapDeleteAccept(maps, k, "false")
           IN  /\ ~r.hung
               /\ r.prev = ZeroV /\ ~r.ok
               /\ Contents(r.maps) = Contents(maps)
               /\ MapLen(r.maps) = MapLen(maps)
        /\ MapDeleteAccept(maps, k, "true") = MapDelete(maps, k)
        /\ MapDeleteAccept(maps, k, "nil") = MapDelete(maps, k)

\* a rejected DeleteAccept of a present key, whose tentative delete resized
\* the table before the key was put back
C5_Witness ==
    \E k \in univ.keys :
        /\ dict[k] = Dolly
        /\ MapDeleteAccept(maps, k, "false").rs
        /\ MapDeleteAccept(maps, k, "false").maps # maps

\* C6: in every reachable state, after Clear() Len() is 0, Get finds no key,
\* every shard has an empty table of the size newShard gives the per-shard
\* hint cap / shards, and a second Clear() changes nothing.
C6_ClearResets ==
    LET c == MapClear(maps)
        h == cap \div shards
    IN  /\ MapLen(c) = 0
        /\ \A k \in Keys : MapGet(c, k) = [value |-> ZeroV, ok |-> FALSE, hung |-> FALSE]
        /\ Len(c) = shards
        /\ \A i \in 1 .. shards :
              /\ c[i].cap = h
              /\ c[i].length = 0
              /\ Len(c[i].buckets) = SmallestPow2(1, h)
              /\ c[i].mask = Len(c[i].buckets) - 1
              /\ \A b \in 1 .. Len(c[i].buckets) : c[i].buckets[b] = EmptyEntry
        /\ MapClear(c) = c

\* a Clear of a map with keys in two shards and a table that is not of the
\* hinted size any more
C6_Witness ==
    /\ maps[1].length > 0 /\ maps[2].length > 0
    /\ Len(maps[1].buckets) # SmallestPow2(1, cap \div shards)
    /\ MapClear(maps) # maps

\* C7: in every reachable state a Range whose visitor always returns true
\* calls the visitor once for each key Get finds, with the value Get
\* returns, and for no other key.
C7_RangeVisitsAll ==
    LET r == MapRange(maps, 0)
        found == {k \in Keys : MapGet(maps, k).ok}
    IN  /\ Len(r) = Cardinality(found)
        /\ {r[i] : i \in 1 .. Len(r)} = {<<k, MapGet(maps, k).value>> : k \in found}

\* a Range over keys in two shards, one of them wrapped around to bucket 0
C7_Witness ==
    /\ Len(MapRange(maps, 0)) = 4
    /\ maps[2].length = 1
    /\ dib(maps[1].buckets[1]) > 1

\* thread t is between the tentative change of a SetAccept or DeleteAccept
\* that accept rejects and the end of its revert
Tentative(t) ==
    /\ pc[t] \in {"SetAcceptTentative", "DeleteAcceptTentative"}
    /\ loc[t].acc = "false"

\* thread u is reading or writing shard s (from 0)
InShard(u, s) ==
    \/ /\ pc[u] \in {"Set", "SetAccept", "SetAcceptTentative", "Get", "Delete",
                     "DeleteAccept", "DeleteAcceptTentative"}
       /\ loc[u].shard = s
    \/ /\ pc[u] \in {"LenLocked", "RangeLocked", "ClearLocked"}
       /\ loc[u].i = s

\* C8: a zero-valued Map may be used directly: no first Set, Get or Delete
\* of a thread on it panics, and each runs against shards that Init has
\* allocated.
C8_LazyInitSafe ==
    /\ ~panicked
    /\ \A t \in Threads : pc[t] \in {"Set", "Get", "Delete"} => once = "done"

\* C9: while a thread is between the tentative change of a rejected
\* SetAccept or DeleteAccept and the end of its revert, it holds the
\* shard's lock and no other thread reads or writes that shard; whatever any
\* call of any thread read was the committed value, and a Get of a key whose
\* shard no thread has locked for writing returns the committed value.
C9_RejectedNotObserved ==
    /\ ~stale
    /\ \A t \in Threads :
          Tentative(t) =>
             /\ mus[loc[t].shard + 1].w = t
             /\ \A u \in Threads \ {t} : ~InShard(u, loc[t].shard)
    /\ \A k \in univ.keys :
          mus[choose(k, shardIDMax).shard + 1].w = 0 =>
             MapGet(maps, k) = AbsGet(dict, k)

\* a thread has tentatively set an absent key, accept rejects it and the
\* table holds the key while the dictionary does not; another thread has
\* made a call and is free to make one more
C9_Witness ==
    \E t \in Threads, u \in Threads :
        /\ u # t
        /\ Tentative(t)
        /\ pc[t] = "SetAcceptTentative"
        /\ dict[loc[t].key] = None
        /\ MapGet(maps, loc[t].key).ok
        /\ pc[u] = "idle" /\ ncalls[u] = 1
        /\ ~stale

\* C10: in every reachable state every Get, Set and Delete, of a present or
\* of an absent key, returns: its probe loop reaches an empty bucket or the
\* key within one turn of the bucket array.
C10_CallsReturn ==
    /\ ~hung
    /\ \A k \in Keys :
          /\ ~MapGet(maps, k).hung
          /\ ~MapDelete(maps, k).hung
          /\ \A v \in univ.values : ~MapSet(maps, k, v).hung

\* as many keys in one shard as the smallest table has buckets, a Get of an
\* absent key of that shard and a Set of it
C10_Witness ==
    /\ maps[1].length = 8
    /\ dict[8] = None /\ InShard0(8)
    /\ ~MapGet(maps, 8).ok /\ ~MapGet(maps, 8).hung
    /\ ~MapSet(maps, 8, Dolly).ok /\ ~MapSet(maps, 8, Dolly).hung

\* the shards (from 1) whose lock thread t holds, for writing or for reading
Held(t) == {i \in 1 .. Len(mus) : mus[i].w = t \/ t \in mus[i].r}

\* thread t has no lock for its next shard yet: it is in a loop over the
\* shards, or in Delete before the Lock
Waiting(t) == pc[t] \in {"Len", "Range", "Clear", "DeleteCalled"}

\* thread t is past a Lock or RLock and before the Unlock or RUnlock
Locked(t) ==
    pc[t] \in {"Set", "SetAccept", "SetAcceptTentative", "Get", "Delete",
               "DeleteAccept", "DeleteAcceptTentative", "LenLocked",
               "RangeLocked", "ClearLocked"}

\* every lock is held by threads that are in the call that took it
HoldersRun ==
    \A i \in 1 .. Len(mus) :
        \A t \in Threads : i \in Held(t) => Locked(t) /\ InShard(t, i - 1)

\* C11: a thread holds at most one shard lock in every state, every lock
\* that is held is held by a thread that is inside the call that took it and
\* waits for no other lock, and a thread that waits for a shard's lock (Len,
\* Range or Clear for its next shard, Delete for its key's shard) gets it,
\* the threads that hold locks being scheduled.
C11_OneLockNoDeadlock ==
    /\ [](\A t \in Threads : Cardinality(Held(t)) <= 1)
    /\ [](\A t \in Threads : Waiting(t) => Held(t) = {})
    /\ []HoldersRun
    /\ \A t \in Threads : Waiting(t) ~> Locked(t)

\* a Len that has released shard 0 and waits for shard 1, whose lock a
\* Clear of another thread holds
C11_LenWaits ==
    \E t \in Threads, u \in Threads :
        /\ pc[t] = "Len" /\ loc[t].i = 1 /\ Held(t) = {}
        /\ pc[u] = "ClearLocked" /\ Held(u) = {2}

\* a Delete that waits for the lock of shard 0, which a Get of another
\* thread holds for reading inside a probe loop that never ends
C11_Witness ==
    \E t \in Threads, u \in Threads :
        /\ pc[t] = "DeleteCalled" /\ loc[t].shard = 0 /\ Held(t) = {}
        /\ pc[u] = "Get" /\ Held(u) = {1}
        /\ GetWithHash(maps[1], loc[u].hashkey, loc[u].key).hung

\* thread t is about to write shard s (from 0) or to replace its table
Writes(t, s) ==
    \/ /\ pc[t] \in {"Set", "SetAccept", "SetAcceptTentative", "Delete",
                     "DeleteAccept", "DeleteAcceptTentative"}
       /\ loc[t].shard = s
    \/ pc[t] = "ClearLocked" /\ loc[t].i = s

\* thread t is about to read shard s (from 0)
Reads(t, s) ==
    \/ pc[t] = "Get" /\ loc[t].shard = s
    \/ pc[t] \in {"RangeLocked", "LenLocked"} /\ loc[t].i = s

\* C12: in every state a thread that writes a shard or replaces its table
\* is the writer of the shard's lock, a thread that reads it is the writer
\* or one of the readers, and a lock that has a writer has no reader and
\* belongs to no thread but the writer.
C12_MutualExclusion ==
    /\ \A t \in Threads, s \in 0 .. shards - 1 :
          /\ Writes(t, s) => mus[s + 1].w = t
          /\ Reads(t, s) => mus[s + 1].w = t \/ t \in mus[s + 1].r
    /\ \A i \in 1 .. Len(mus) :
          mus[i].w # 0 =>
             /\ mus[i].r = {}
             /\ \A u \in Threads \ {mus[i].w} : i \notin Held(u)
    /\ \A t \in Threads, s \in 0 .. shards - 1 :
          Writes(t, s) => \A u \in Threads \ {t} : ~InShard(u, s)

\* two threads read one shard under its shared lock, a Get and a Range,
\* after a Set
C12_Witness ==
    \E t \in Threads, u \in Threads :
        /\ pc[t] = "Get" /\ loc[t].shard = 0
        /\ pc[u] = "RangeLocked" /\ loc[u].i = 0
        /\ mus[1] = [w |-> 0, r |-> {t, u}]
        /\ dict[ZeroK] = Dolly

\* C13: in every state that Set, Delete, SetAccept, DeleteAccept and Clear
\* reach, for every capacity hint, every shard has
\* length <= growAt < len(buckets), so that one bucket at least is empty.
C13_LoadBelowGrowAt ==
    \A i \in 1 .. shards :
        /\ maps[i].length <= maps[i].growAt
        /\ maps[i].growAt < Len(maps[i].buckets)
        /\ \E b \in 1 .. Len(maps[i].buckets) : dib(maps[i].buckets[b]) = 0

\* a table that a Delete shrank to as many buckets as it has keys
C13_FullTable ==
    /\ maps[1].cap = HintShardCap
    /\ Len(maps[1].buckets) = 8
    /\ maps[1].length = 8
    /\ Occupied(maps[1]) = 1 .. 8

\* C14: in every reachable state every shard's bucket array is at least as
\* long as the one newShard allocates for the per-shard hint cap / shards
\* (the smallest power of two >= 8 and >= the hint), and the shard's cap
\* field is that hint.
C14_ShrinkKeepsFloor ==
    \A i \in 1 .. shards :
        /\ Len(maps[i].buckets) >= SmallestPow2(1, ShardCap(cap, shards))
        /\ maps[i].cap = ShardCap(cap, shards)

\* a shard hinted MaxShardCap, whose table newShard makes 16 buckets long,
\* with 8 buckets and the hint still in its cap field
C14_BelowFloor ==
    /\ maps[1].cap = MaxShardCap
    /\ SmallestPow2(1, maps[1].cap) = 16
    /\ Len(maps[1].buckets) = 8

RECURSIVE Pow2(_)
Pow2(n) == IF n = 0 THEN 1 ELSE 2 * Pow2(n - 1)

\* the shard mask of 2^b shards: the map's own for its shard count
MaskOf(b) == IF Pow2(b) = shards THEN shardIDMax ELSE Pow2(b) - 1

\* C15, as stated: for every digest d and every shard count 2^b the router
\* returns the shard d & (2^b - 1) and the hash d >> b, which together make
\* up the digest.
C15_RouterShiftsByShardBits ==
    \A b \in 0 .. MaxShardBits, k \in 0 .. Len(DigestTab) - 1 :
        LET d == Digest(k)
            c == choose(k, MaskOf(b))
        IN  /\ c.shard = d % Pow2(b)
            /\ c.hashkey = d \div Pow2(b)
            /\ d = c.hashkey * Pow2(b) + c.shard

\* C15, amended: for every digest d and every shard count 2^b the router
\* returns the shard d & (2^b - 1) and the hash d >> 16, whatever b is; the
\* two are taken from disjoint bits when b <= 16, and they make up the
\* digest only when b = 16 or d has no bit set from bit b up.
C15_RouterShiftsByDibBits ==
    \A b \in 0 .. MaxShardBits, k \in 0 .. Len(DigestTab) - 1 :
        LET d == Digest(k)
            c == choose(k, MaskOf(b))
        IN  /\ c.shard = d % Pow2(b)
            /\ c.hashkey = d \div Pow2(dibBitSize)
            /\ b <= dibBitSize => c.shard < Pow2(dibBitSize)
            /\ b <= dibBitSize =>
                  ((d = c.hashkey * Pow2(b) + c.shard)
                     <=> (b = dibBitSize \/ d = c.shard))

\* a key of the second of 16 shards is stored there with the bits 16.. of
\* its digest as its hash, which are not the digest shifted by 4
C15_Witness ==
    /\ shards = Pow2(4)
    /\ \E k \in univ.keys :
          /\ choose(k, shardIDMax).shard = 1
          /\ \E b \in Occupied(maps[2]) :
                /\ maps[2].buckets[b].key = k
                /\ hash(maps[2].buckets[b]) = Digest(k) \div Pow2(dibBitSize)
                /\ hash(maps[2].buckets[b]) # Digest(k) \div shards

\* the occupied buckets of the map: shard (from 1) and bucket (from 1)
Slots(ms) == UNION {{<<i, b>> : b \in Occupied(ms[i])} : i \in 1 .. Len(ms)}

\* the key in an occupied bucket
KeyAt(ms, s) == ms[s[1]].buckets[s[2]].key

\* C16: in every reachable state every key stored in shard i has
\* digest & shardIDMax = i, no key is in two occupied buckets of the map,
\* and the keys stored are the keys present.
C16_KeyInItsShardOnce ==
    /\ \A s \in Slots(maps) : choose(KeyAt(maps, s), shardIDMax).shard = s[1] - 1
    /\ \A s \in Slots(maps), u \in Slots(maps) :
          KeyAt(maps, s) = KeyAt(maps, u) => s = u
    /\ {KeyAt(maps, s) : s \in Slots(maps)} = Present(dict)

\* keys in two shards, the first of which has shrunk below its hinted size
\* and has three keys again
C16_Witness ==
    /\ maps[1].cap = MaxShardCap
    /\ Len(maps[1].buckets) = 8
    /\ maps[1].length = 3
    /\ maps[2].length = 1
    /\ Cardinality(Slots(maps)) = 4

\* the bucket (from 0) the entry e of the table m would be in with no
\* other entry in its way
Home(m, e) == BitAnd(hash(e), m.mask)

ProbePath(m, b) ==
    LET h == Home(m, m.buckets[b])
        n == (b - 1 - h) % Len(m.buckets)
    IN  {((h + j) % Len(m.buckets)) + 1 : j \in 0 .. n}

\* C18: in every reachable state every bucket on the cyclic path from the
\* home of an occupied bucket up to that bucket is occupied, and the lookup
\* of every stored key, which stops at the first empty bucket, finds it.
C18_ProbePathOccupied ==
    \A s \in 1 .. shards :
        LET m == maps[s]
        IN  \A b \in Occupied(m) :
                /\ ProbePath(m, b) \subseteq Occupied(m)
                /\ GetWithHash(m, hash(m.buckets[b]), m.buckets[b].key)
                      = [value |-> m.buckets[b].value, ok |-> TRUE, hung |-> FALSE]

\* a table that grew to 16 buckets and lost keys to Deletes, with an entry
\* behind another one of the same home
C18_Witness ==
    LET m == maps[1]
    IN  /\ Len(m.buckets) = 16
        /\ m.cap = 0
        /\ m.length < 6
        /\ \E b \in Occupied(m) :
              Cardinality(ProbePath(m, b)) = 2 /\ ProbePath(m, b) \subseteq Occupied(m)

IsPow2(n) == \E b \in 0 .. MaxShardBits : Pow2(b) = n

\* the table m has the shape newShard gives a table of its size
Shaped(m) ==
    LET n == Len(m.buckets)
    IN  /\ IsPow2(n) /\ n >= 8
        /\ m.mask = n - 1
        /\ m.length >= 0 /\ m.length <= n
        /\ 100 * m.growAt <= 85 * n /\ 85 * n < 100 * (m.growAt + 1)
        /\ 100 * m.shrinkAt <= 15 * n /\ 15 * n < 100 * (m.shrinkAt + 1)

\* C19: in every reachable state every shard's table has a power of two
\* >= 8 of buckets, mask = len(buckets) - 1, length <= len(buckets),
\* growAt = floor(0.85 * len(buckets)) and shrinkAt = floor(0.15 *
\* len(buckets)); newShard(c) is such a table with length 0 and the smallest
\* power of two >= 8 and >= c of buckets; a Set that grows the table doubles
\* len(buckets).
C19_TableShape ==
    /\ \A s \in 1 .. shards : Shaped(maps[s])
    /\ \A c \in 0 .. HintShardCap :
          /\ Shaped(newShard(c))
          /\ newShard(c).length = 0
          /\ Len(newShard(c).buckets) = SmallestPow2(1, c)
          /\ \A p \in {8, 16, 32, 64} :
                p >= c => Len(newShard(c).buckets) <= p
    /\ \A k \in univ.keys, v \in univ.values :
          LET c == choose(k, shardIDMax)
              m == maps[c.shard + 1]
              r == SetWithHash(m, c.hashkey, k, v)
          IN  /\ r.rs <=> m.length >= m.growAt
              /\ r.rs => Len(r.m.buckets) = 2 * Len(m.buckets) /\ Shaped(r.m)

\* a table of 8 buckets with 6 keys, which the next Set makes 16 buckets
\* long
C19_Witness ==
    /\ Len(maps[1].buckets) = 8
    /\ maps[1].length = 6
    /\ maps[1].growAt = 6 /\ maps[1].shrinkAt = 1
    /\ \E k \in univ.keys, v \in univ.values :
          /\ MapSet(maps, k, v).rs
          /\ Len(MapSet(maps, k, v).maps[1].buckets) = 16

\* what Init leaves behind: the shard count, the mask, the locks and the
\* tables
Initialized ==
    /\ IsPow2(shards)
    /\ shards >= 16 * NumCPU
    /\ shards < 2 * 16 * NumCPU
    /\ shardIDMax = shards - 1
    /\ Len(mus) = shards
    /\ Len(maps) = shards

\* the body of Init has run in this step
InitRan == once # "done" /\ once' = "done"

====
